---- MODULE Spec2Model ----
(***************************************************************************)
(* Price-attestation pipeline of Neko-Oracle-RWA.                          *)
(*                                                                         *)
(* Ledger side: the structural ZK verifier verify_price_proof and the      *)
(* entry point set_price_with_proof that records a verified price.         *)
(* Off-chain side: SorobanPublisher.publishToOracle with its retry         *)
(* wrapper, and the oracle contract's set_asset_price it submits to.       *)
(***************************************************************************)
EXTENDS Integers, Sequences, FiniteSets, TLC

VARIABLES
  used_proofs,   \* ledger: proof_hash -> [firstSeenAt]   (used_proofs[proof_hash] = timestamp)
  prices,        \* ledger: <<asset, timestamp>> -> price
  metadata,      \* ledger: <<asset, timestamp>> -> [commit, proof_hash, verified]
  last,          \* the last invocation of the entry point: its arguments and its result
  acceptCount,   \* history: proof_hash -> number of Ok results ever returned (saturating)
  firstOutcome,  \* history: watched arguments -> [first: result of the first call that carried
                 \* them, later: "none" | "rejected" (all ProofAlreadyUsed) | "other"]
  round,         \* concurrent attestation rounds: round id -> [pc, args, res]
  clientOk,      \* SorobanPublisher: whether clientPromise resolved (FALSE: it rejected)
  pub,           \* SorobanPublisher: the publishToOracle call in progress
  txs,           \* the transactions broadcast so far: [call, fn, args, status]
  asset_prices,  \* oracle contract: <<asset, timestamp>> -> price (set_asset_price)
  publishCalls,  \* number of publishToOracle calls started
  poller,        \* the earlier SorobanPublisher, which polls getTransaction itself:
                 \* its publishToOracle call in progress
  builder        \* off-chain round: fetch prices, prove, verify off-chain, commit,
                 \* hand over to the publisher

verifierVars == <<used_proofs, prices, metadata, last, acceptCount, firstOutcome, round>>
publisherVars == <<clientOk, pub, txs, asset_prices, publishCalls, poller, builder>>
vars == <<used_proofs, prices, metadata, last, acceptCount, firstOutcome, round,
          clientOk, pub, txs, asset_prices, publishCalls, poller, builder>>
ledger == <<used_proofs, prices, metadata>>

----------------------------------------------------------------------------
(* Program constants *)

\* "Validate proof size (>= 256 bytes)"
MinProofLen == 256
\* expected_price / 100000: 7 decimals -> 2 decimals
PriceScale == 100000
\* private maxRetries: number = 3
maxRetries == 3
\* "Circuit verifies: |p1 - p2| <= 7% * max(p1,p2)", in basis points
ToleranceBps == 700

(* Bounds of the model *)

\* acceptCount saturates here ("CountCap or more")
CountCap == 3
\* number of concurrent attestation rounds
NumRounds == 2
\* number of publishToOracle calls made on the publisher
MaxPublishCalls == 1
\* number of publishToOracle calls made on the earlier, polling publisher
MaxPollerCalls == 2
\* number of off-chain rounds
MaxBuildRounds == 2

----------------------------------------------------------------------------
(* Byte strings (Bytes), kept run-length encoded: a sequence of runs       *)
(* [byte, count] stands for count copies of byte, run after run.           *)

Run(b, n) == [byte |-> b, count |-> n]

RECURSIVE BytesLen(_)
BytesLen(bytes) == IF bytes = << >> THEN 0 ELSE bytes[1].count + BytesLen(Tail(bytes))

AllZero(bytes) == \A i \in 1..Len(bytes) : bytes[i].byte = 0

(* Input universes *)

EmptyProofBytes == << >>
ShortProof      == <<Run(1, MinProofLen - 1)>>
ShortZeroProof  == <<Run(0, MinProofLen - 1)>>
ZeroProofBytes  == <<Run(0, MinProofLen)>>
ProofA          == <<Run(1, MinProofLen)>>
ProofB          == <<Run(0, MinProofLen), Run(7, 1)>>

ProofList == <<EmptyProofBytes, ShortProof, ShortZeroProof, ZeroProofBytes, ProofA, ProofB>>
ProofUniverse == {ProofList[i] : i \in 1..Len(ProofList)}

\* the commitment the publisher computed for an asset's round
CommitFor(asset) == IF asset = "TSLA" THEN "c1" ELSE "c2"

\* the verifier's inputs in breadth, for one asset and one timestamp
VerifierArgs ==
  [asset : {"TSLA"}, price : {3000000, 3000001, 3100000},
   timestamp : {1700000000}, commit : {CommitFor("TSLA")},
   proof : ProofUniverse, public_inputs : { << >>, <<30>>, <<30, 31>> }]

\* well-formed submissions over the assets and timestamps
StoreArgs ==
  {[asset |-> s, price |-> 3000000, timestamp |-> t, commit |-> CommitFor(s),
    proof |-> p, public_inputs |-> <<30>>] :
     s \in {"TSLA", "BTC"}, t \in {1700000000, 1700000300}, p \in {ProofA, ProofB}}

ArgsUniverse == VerifierArgs \cup StoreArgs

\* what concurrent rounds submit
RoundArgs ==
  {[asset |-> s, price |-> v, timestamp |-> t, commit |-> CommitFor(s),
    proof |-> p, public_inputs |-> <<30>>] :
     s \in {"TSLA", "BTC"}, v \in {3000000, 3100000},
     t \in {1700000000, 1700000300}, p \in {ProofA, ProofB}}

----------------------------------------------------------------------------
(* zk_verifier.rs *)

\* env.crypto().keccak256(proof_data): a collision-free digest over the
\* proof universe (the position of the payload in ProofList).
keccak256(proof_data) == CHOOSE i \in 1..Len(ProofList) : ProofList[i] = proof_data

HashUniverse == {keccak256(p) : p \in ProofUniverse}

\* validate_proof_structure(proof_data)?
validate_proof_structure(proof_data) ==
  IF BytesLen(proof_data) = 0 THEN "EmptyProof"
  ELSE IF BytesLen(proof_data) < MinProofLen THEN "BadProofLen"
  ELSE IF AllZero(proof_data) THEN "ZeroProof"
  ELSE "Ok"

\* `as u32` of a non-negative i128: the value modulo 2^32, by 16-bit limbs
AsU32(x) == (x % 65536) + 65536 * ((x \div 65536) % 65536)

\* let expected_scaled = (expected_price / 100000) as u32;
expected_scaled(expected_price) == AsU32(expected_price \div PriceScale)

\* a replay check that takes any recorded proof for this one
is_proof_used_any(used, proof_hash) == DOMAIN used # {}

\* is_proof_used(env, &proof_hash)
is_proof_used(used, proof_hash) == proof_hash \in DOMAIN used

\* store_used_proof(env, &proof_hash, timestamp): used_proofs[proof_hash] = timestamp
store_used_proof(used, proof_hash, timestamp) ==
  [h \in (DOMAIN used) \cup {proof_hash} |->
     IF h = proof_hash THEN [firstSeenAt |-> timestamp] ELSE used[h]]

\* the replay check left out
verify_price_proof_no_replay_check(used, proof_data, public_inputs, expected_price, expected_timestamp) ==
  IF validate_proof_structure(proof_data) # "Ok"
    THEN [res |-> validate_proof_structure(proof_data), used |-> used]
  ELSE IF Len(public_inputs) = 0 THEN [res |-> "NoPublicInput", used |-> used]
  ELSE IF public_inputs[1] # expected_scaled(expected_price)
    THEN [res |-> "PriceMismatch", used |-> used]
  ELSE [res |-> "Ok",
        used |-> store_used_proof(used, keccak256(proof_data), expected_timestamp)]

\* the record never written
verify_price_proof_no_store(used, proof_data, public_inputs, expected_price, expected_timestamp) ==
  IF validate_proof_structure(proof_data) # "Ok"
    THEN [res |-> validate_proof_structure(proof_data), used |-> used]
  ELSE IF Len(public_inputs) = 0 THEN [res |-> "NoPublicInput", used |-> used]
  ELSE IF public_inputs[1] # expected_scaled(expected_price)
    THEN [res |-> "PriceMismatch", used |-> used]
  ELSE IF is_proof_used(used, keccak256(proof_data))
    THEN [res |-> "ProofAlreadyUsed", used |-> used]
  ELSE [res |-> "Ok", used |-> used]

\* the record of a replayed proof overwritten with the new timestamp
verify_price_proof_restamp(used, proof_data, public_inputs, expected_price, expected_timestamp) ==
  IF validate_proof_structure(proof_data) # "Ok"
    THEN [res |-> validate_proof_structure(proof_data), used |-> used]
  ELSE IF Len(public_inputs) = 0 THEN [res |-> "NoPublicInput", used |-> used]
  ELSE IF public_inputs[1] # expected_scaled(expected_price)
    THEN [res |-> "PriceMismatch", used |-> used]
  ELSE IF is_proof_used(used, keccak256(proof_data))
    THEN [res |-> "ProofAlreadyUsed",
          used |-> store_used_proof(used, keccak256(proof_data), expected_timestamp)]
  ELSE [res |-> "Ok",
        used |-> store_used_proof(used, keccak256(proof_data), expected_timestamp)]

\* the record stamped with the scaled price instead of the timestamp
verify_price_proof_wrong_stamp(used, proof_data, public_inputs, expected_price, expected_timestamp) ==
  IF validate_proof_structure(proof_data) # "Ok"
    THEN [res |-> validate_proof_structure(proof_data), used |-> used]
  ELSE IF Len(public_inputs) = 0 THEN [res |-> "NoPublicInput", used |-> used]
  ELSE IF public_inputs[1] # expected_scaled(expected_price)
    THEN [res |-> "PriceMismatch", used |-> used]
  ELSE IF is_proof_used(used, keccak256(proof_data))
    THEN [res |-> "ProofAlreadyUsed", used |-> used]
  ELSE [res |-> "Ok",
        used |-> store_used_proof(used, keccak256(proof_data), expected_scaled(expected_price))]

\* the public inputs looked at before the proof structure
verify_price_proof_inputs_first(used, proof_data, public_inputs, expected_price, expected_timestamp) ==
  IF Len(public_inputs) = 0 THEN [res |-> "NoPublicInput", used |-> used]
  ELSE IF validate_proof_structure(proof_data) # "Ok"
    THEN [res |-> validate_proof_structure(proof_data), used |-> used]
  ELSE IF public_inputs[1] # expected_scaled(expected_price)
    THEN [res |-> "PriceMismatch", used |-> used]
  ELSE IF is_proof_used(used, keccak256(proof_data))
    THEN [res |-> "ProofAlreadyUsed", used |-> used]
  ELSE [res |-> "Ok",
        used |-> store_used_proof(used, keccak256(proof_data), expected_timestamp)]

\* the replay check made before the price check
verify_price_proof_replay_first(used, proof_data, public_inputs, expected_price, expected_timestamp) ==
  IF validate_proof_structure(proof_data) # "Ok"
    THEN [res |-> validate_proof_structure(proof_data), used |-> used]
  ELSE IF Len(public_inputs) = 0 THEN [res |-> "NoPublicInput", used |-> used]
  ELSE IF is_proof_used(used, keccak256(proof_data))
    THEN [res |-> "ProofAlreadyUsed", used |-> used]
  ELSE IF public_inputs[1] # expected_scaled(expected_price)
    THEN [res |-> "PriceMismatch", used |-> used]
  ELSE [res |-> "Ok",
        used |-> store_used_proof(used, keccak256(proof_data), expected_timestamp)]

\* the record written before the price check, and left behind when it fails
verify_price_proof_store_first(used, proof_data, public_inputs, expected_price, expected_timestamp) ==
  IF validate_proof_structure(proof_data) # "Ok"
    THEN [res |-> validate_proof_structure(proof_data), used |-> used]
  ELSE IF Len(public_inputs) = 0 THEN [res |-> "NoPublicInput", used |-> used]
  ELSE IF is_proof_used(used, keccak256(proof_data))
    THEN [res |-> IF public_inputs[1] # expected_scaled(expected_price)
                    THEN "PriceMismatch" ELSE "ProofAlreadyUsed",
          used |-> used]
  ELSE [res |-> IF public_inputs[1] # expected_scaled(expected_price)
                  THEN "PriceMismatch" ELSE "Ok",
        used |-> store_used_proof(used, keccak256(proof_data), expected_timestamp)]

\* verify_price_proof: the result and the used-proof store it leaves
verify_price_proof(used, proof_data, public_inputs, expected_price, expected_timestamp) ==
  LET structure == validate_proof_structure(proof_data) IN
  IF structure # "Ok" THEN [res |-> structure, used |-> used]
  ELSE IF Len(public_inputs) = 0 THEN [res |-> "NoPublicInput", used |-> used]
  ELSE IF public_inputs[1] # expected_scaled(expected_price)
    THEN [res |-> "PriceMismatch", used |-> used]
  ELSE IF is_proof_used(used, keccak256(proof_data))
    THEN [res |-> "ProofAlreadyUsed", used |-> used]
  ELSE [res |-> "Ok",
        used |-> store_used_proof(used, keccak256(proof_data), expected_timestamp)]

----------------------------------------------------------------------------
(* The entry point: steps 5-8 of the on-chain flow *)

Put(f, k, v) == [x \in (DOMAIN f) \cup {k} |-> IF x = k THEN v ELSE f[x]]

Bump(n) == IF n < CountCap THEN n + 1 ELSE n

\* The arguments verify_price_proof reads
Checked(a) == [proof |-> a.proof, public_inputs |-> a.public_inputs,
               price |-> a.price, timestamp |-> a.timestamp]

\* The arguments whose first call is watched: one submission of ProofA and
\* the same submission under the other timestamp
WatchedArgs ==
  {[proof |-> ProofA, public_inputs |-> <<30>>, price |-> 3000000, timestamp |-> t] :
     t \in {1700000000, 1700000300}}

\* store the verified price: prices[asset][timestamp] = price
store_price(p, a) == Put(p, <<a.asset, a.timestamp>>, a.price)

\* metadata[asset][ts] = (commit, proof_hash, verified = true)
store_metadata(m, a) ==
  Put(m, <<a.asset, a.timestamp>>,
      [commit |-> a.commit, proof_hash |-> keccak256(a.proof), verified |-> TRUE])

\* set_price_with_proof(asset, price, timestamp, commit, proof, public_inputs):
\* one contract invocation, executed as a whole
set_price_with_proof(a) ==
  LET v == verify_price_proof(used_proofs, a.proof, a.public_inputs, a.price, a.timestamp)
      h == keccak256(a.proof)
  IN /\ used_proofs' = v.used
     /\ prices' = IF v.res = "Ok" THEN store_price(prices, a) ELSE prices
     /\ metadata' = IF v.res = "Ok" THEN store_metadata(metadata, a) ELSE metadata
     /\ last' = [called |-> TRUE, args |-> a, res |-> v.res]
     /\ acceptCount' = IF v.res = "Ok"
                         THEN [acceptCount EXCEPT ![h] = Bump(@)]
                         ELSE acceptCount
     /\ firstOutcome' =
          IF Checked(a) \notin WatchedArgs THEN firstOutcome
          ELSE IF Checked(a) \notin DOMAIN firstOutcome
            THEN Put(firstOutcome, Checked(a), [first |-> v.res, later |-> "none"])
          ELSE [firstOutcome EXCEPT ![Checked(a)].later =
                  IF v.res = "ProofAlreadyUsed" /\ @ # "other" THEN "rejected" ELSE "other"]

SomeArgs == CHOOSE a \in ArgsUniverse : TRUE
NoCall == [called |-> FALSE, args |-> SomeArgs, res |-> "none"]
EmptyMap == [x \in {} |-> 0]
IdleRound == [pc |-> "idle", args |-> SomeArgs, res |-> "none"]
Rounds == 1..NumRounds

\* PublishParams the scheduler hands to publishToOracle
ParamsUniverse ==
  {[assetId |-> s, price |-> 3000000, timestamp |-> 1700000000, commit |-> CommitFor(s)] :
     s \in {"TSLA", "BTC"}}
SomeParams == CHOOSE p \in ParamsUniverse : TRUE
IdlePublisher ==
  [pc |-> "idle", params |-> SomeParams, retries |-> 0, attempts |-> 0,
   response |-> "none", hashKnown |-> FALSE, outcome |-> "none"]
\* steps: the steps of the submission sequence completed in the call so far
IdlePoller ==
  [pc |-> "idle", params |-> SomeParams, calls |-> 0, steps |-> << >>,
   hashKnown |-> FALSE, result |-> "none", outcome |-> "none"]

\* verified: what VerifyFull returned true for; submitted: what was handed to
\* the publisher; bindings: the commitments generated so far, with their arguments
IdleBuilder ==
  [pc |-> "idle", rounds |-> 0, assetId |-> "TSLA", timestamp |-> 0,
   observations |-> << >>, proveCalls |-> 0, verifyCalls |-> 0,
   proof |-> << >>, publicInputs |-> << >>, averagedPrice |-> 0,
   verified |-> << >>, commitment |-> << >>, submitted |-> << >>,
   error |-> "none", bindings |-> {}]

Init ==
  /\ used_proofs = EmptyMap
  /\ prices = EmptyMap
  /\ metadata = EmptyMap
  /\ last = NoCall
  /\ acceptCount = [h \in HashUniverse |-> 0]
  /\ firstOutcome = EmptyMap
  /\ round = [r \in Rounds |-> IdleRound]
  /\ clientOk \in BOOLEAN
  /\ pub = IdlePublisher
  /\ txs = << >>
  /\ asset_prices = EmptyMap
  /\ publishCalls = 0
  /\ poller = IdlePoller
  /\ builder = IdleBuilder

\* A submission is executed by the ledger
Invoke ==
  \E a \in ArgsUniverse :
    /\ set_price_with_proof(a)
    /\ UNCHANGED round
    /\ UNCHANGED publisherVars

Next == Invoke

Spec == Init /\ [][Next]_vars

----------------------------------------------------------------------------
(* Concurrent attestation rounds: each round submits an invocation, the    *)
(* ledger executes the submitted invocations one at a time in any order.   *)

Submit(r) ==
  /\ round[r].pc = "idle"
  /\ \E a \in RoundArgs :
       round' = [round EXCEPT ![r] = [pc |-> "submitted", args |-> a, res |-> "none"]]
  /\ UNCHANGED <<ledger, last, acceptCount, firstOutcome>>
  /\ UNCHANGED publisherVars

Execute(r) ==
  /\ round[r].pc = "submitted"
  /\ set_price_with_proof(round[r].args)
  /\ round' = [round EXCEPT ![r].pc = "done", ![r].res = last'.res]
  /\ UNCHANGED publisherVars

NextRounds == \E r \in Rounds : Submit(r) \/ Execute(r)

SpecRounds == Init /\ [][NextRounds]_vars

----------------------------------------------------------------------------
(***************************************************************************)
(* SorobanPublisher (publisher.ts) and the oracle contract it submits to.  *)
(* pub.pc is the position of the publishToOracle call:                      *)
(*   idle -> getClient -> simulate -> signAndSend -> awaitFinal             *)
(*        -> checkResponse -> done, with catch / delay on the retry path.   *)
(***************************************************************************)

TxStatuses == {"PENDING", "SUCCESS", "FAILED"}
\* what sentTx.getTransactionResponse can hold once signAndSend has returned
ResponseOf(tx) ==
  {"undefined"} \cup (IF tx.status = "PENDING" THEN {"NOT_FOUND"} ELSE {tx.status})

\* the invocation the publisher puts in a transaction:
\* client.set_asset_price({ asset_id, price, timestamp })
Invocation(params) ==
  [fn |-> "set_asset_price",
   args |-> [asset_id |-> params.assetId, price |-> params.price,
             timestamp |-> params.timestamp]]

\* oracle contract, set_asset_price(asset_id, price, timestamp): a plain data
\* provider, the price of <<asset, timestamp>> is written with no proof digest
set_asset_price(ap, args) ==
  Put(ap, <<args.asset_id, args.timestamp>>, args.price)

\* publishToOracle(params) is called
Publish(params) ==
  /\ pub.pc = "idle"
  /\ publishCalls < MaxPublishCalls
  /\ publishCalls' = publishCalls + 1
  /\ pub' = [IdlePublisher EXCEPT !.pc = "getClient", !.params = params]
  /\ UNCHANGED <<clientOk, txs, asset_prices>>

\* a publisher that awaits the client inside the retry wrapper
getClient_retried ==
  /\ pub.pc = "getClient"
  /\ IF clientOk
       THEN pub' = [pub EXCEPT !.pc = "simulate", !.retries = maxRetries, !.attempts = 1]
       ELSE pub' = [pub EXCEPT !.pc = "catch", !.retries = maxRetries, !.attempts = 1]
  /\ UNCHANGED <<clientOk, txs, asset_prices, publishCalls>>

\* const client = await this.getClient(): a rejected clientPromise rejects the
\* call outside the retry wrapper; otherwise retry(fn) starts with maxRetries
getClient ==
  /\ pub.pc = "getClient"
  /\ IF clientOk
       THEN pub' = [pub EXCEPT !.pc = "simulate", !.retries = maxRetries, !.attempts = 1]
       ELSE pub' = [pub EXCEPT !.pc = "done", !.outcome = "error"]
  /\ UNCHANGED <<clientOk, txs, asset_prices, publishCalls>>

\* await client.set_asset_price({...}): the simulation succeeds or throws
Simulate ==
  /\ pub.pc = "simulate"
  /\ \E ok \in BOOLEAN :
       pub' = [pub EXCEPT !.pc = IF ok THEN "signAndSend" ELSE "catch"]
  /\ UNCHANGED <<clientOk, txs, asset_prices, publishCalls>>

\* assembledTx.signAndSend() throws before the transaction reaches the network
SendFails ==
  /\ pub.pc = "signAndSend"
  /\ pub' = [pub EXCEPT !.pc = "catch"]
  /\ UNCHANGED <<clientOk, txs, asset_prices, publishCalls>>

\* assembledTx.signAndSend() hands the signed transaction to the network
Broadcast ==
  /\ pub.pc = "signAndSend"
  /\ txs' = Append(txs, [call |-> publishCalls, fn |-> Invocation(pub.params).fn,
                          args |-> Invocation(pub.params).args, status |-> "PENDING"])
  /\ pub' = [pub EXCEPT !.pc = "awaitFinal"]
  /\ UNCHANGED <<clientOk, asset_prices, publishCalls>>

\* the ledger executes a broadcast transaction: it is applied or it fails
LedgerExecute(i) ==
  /\ txs[i].status = "PENDING"
  /\ \E applied \in BOOLEAN :
       /\ txs' = [txs EXCEPT ![i].status = IF applied THEN "SUCCESS" ELSE "FAILED"]
       /\ asset_prices' = IF applied THEN set_asset_price(asset_prices, txs[i].args)
                                     ELSE asset_prices
  /\ UNCHANGED <<clientOk, pub, publishCalls, poller>>

\* signAndSend() throws after the broadcast (the send or a poll fails)
SendThrowsAfterBroadcast ==
  /\ pub.pc = "awaitFinal"
  /\ pub' = [pub EXCEPT !.pc = "catch"]
  /\ UNCHANGED <<clientOk, txs, asset_prices, publishCalls>>

\* signAndSend() returns: sentTx carries the final response, if any, and
\* possibly a transaction hash
SignAndSendReturns ==
  /\ pub.pc = "awaitFinal"
  /\ \E r \in ResponseOf(txs[Len(txs)]), h \in BOOLEAN :
       pub' = [pub EXCEPT !.pc = "checkResponse", !.response = r, !.hashKnown = h]
  /\ UNCHANGED <<clientOk, txs, asset_prices, publishCalls>>

\* a known transaction hash taken for success
CheckResponse_hash_is_enough ==
  /\ pub.pc = "checkResponse"
  /\ IF pub.hashKnown
       THEN pub' = [pub EXCEPT !.pc = "done", !.outcome = "success"]
       ELSE pub' = [pub EXCEPT !.pc = "catch"]
  /\ UNCHANGED <<clientOk, txs, asset_prices, publishCalls>>

\* the three throws after signAndSend, else return { txHash, success: true }
CheckResponse ==
  /\ pub.pc = "checkResponse"
  /\ IF pub.response = "undefined" \/ pub.response # "SUCCESS" \/ ~pub.hashKnown
       THEN pub' = [pub EXCEPT !.pc = "catch"]
       ELSE pub' = [pub EXCEPT !.pc = "done", !.outcome = "success"]
  /\ UNCHANGED <<clientOk, txs, asset_prices, publishCalls>>

\* a retry wrapper that never gives up
Catch_retries_forever ==
  /\ pub.pc = "catch"
  /\ pub' = [pub EXCEPT !.pc = "delay"]
  /\ UNCHANGED <<clientOk, txs, asset_prices, publishCalls>>

\* a retry wrapper that gives up one invocation early
Catch_gives_up_early ==
  /\ pub.pc = "catch"
  /\ IF pub.retries <= 1
       THEN pub' = [pub EXCEPT !.pc = "done", !.outcome = "error"]
       ELSE pub' = [pub EXCEPT !.pc = "delay"]
  /\ UNCHANGED <<clientOk, txs, asset_prices, publishCalls>>

\* retry(): catch (error) { if (retries <= 0) throw error; ... }
Catch ==
  /\ pub.pc = "catch"
  /\ IF pub.retries <= 0
       THEN pub' = [pub EXCEPT !.pc = "done", !.outcome = "error"]
       ELSE pub' = [pub EXCEPT !.pc = "delay"]
  /\ UNCHANGED <<clientOk, txs, asset_prices, publishCalls>>

\* retry(): after retryDelay, return this.retry(fn, retries - 1)
RetryAfterDelay ==
  /\ pub.pc = "delay"
  /\ pub' = [pub EXCEPT !.pc = "simulate", !.retries = pub.retries - 1,
                        !.attempts = pub.attempts + 1,
                        !.response = "none", !.hashKnown = FALSE]
  /\ UNCHANGED <<clientOk, txs, asset_prices, publishCalls>>

\* the promise of publishToOracle settles and the publisher is free again
Settle ==
  /\ pub.pc = "done"
  /\ pub' = IdlePublisher
  /\ UNCHANGED <<clientOk, txs, asset_prices, publishCalls>>

NextPublisher ==
  /\ \/ \E params \in ParamsUniverse : Publish(params)
     \/ getClient
     \/ Simulate
     \/ SendFails
     \/ Broadcast
     \/ \E i \in DOMAIN txs : LedgerExecute(i)
     \/ SendThrowsAfterBroadcast
     \/ SignAndSendReturns
     \/ CheckResponse
     \/ Catch
     \/ RetryAfterDelay
     \/ Settle
  /\ UNCHANGED <<verifierVars, poller, builder>>

SpecPublisher == Init /\ [][NextPublisher]_vars

----------------------------------------------------------------------------
(***************************************************************************)
(* The earlier SorobanPublisher, which has no retry wrapper and polls      *)
(* getTransaction itself. poller.pc is the position of its                  *)
(* publishToOracle call:                                                    *)
(*   idle -> simulate -> sign -> send -> poll -> checkStatus -> done,       *)
(* with checkStatus -> wait -> poll while the status is NOT_FOUND.          *)
(***************************************************************************)

PollerThrows ==
  [poller EXCEPT !.pc = "done", !.outcome = "error"]

\* publishToOracle(params) is called
PollerPublish(params) ==
  /\ poller.pc = "idle"
  /\ poller.calls < MaxPollerCalls
  /\ poller' = [IdlePoller EXCEPT !.pc = "simulate", !.params = params,
                                  !.calls = poller.calls + 1]
  /\ UNCHANGED <<txs, asset_prices>>

\* a simulated transaction sent without being signed
PollerSimulate_skips_sign ==
  /\ poller.pc = "simulate"
  /\ \E ok \in BOOLEAN :
       poller' = IF ok THEN [poller EXCEPT !.pc = "send",
                                           !.steps = Append(poller.steps, "simulate")]
                       ELSE PollerThrows
  /\ UNCHANGED <<txs, asset_prices>>

\* 1) Build + simulate: await this.client.set_asset_price(..., {simulate: true})
PollerSimulate ==
  /\ poller.pc = "simulate"
  /\ \E ok \in BOOLEAN :
       poller' = IF ok THEN [poller EXCEPT !.pc = "sign",
                                           !.steps = Append(poller.steps, "simulate")]
                       ELSE PollerThrows
  /\ UNCHANGED <<txs, asset_prices>>

\* 2) SIGN: await tx.sign({ signTransaction })
PollerSign ==
  /\ poller.pc = "sign"
  /\ \E ok \in BOOLEAN :
       poller' = IF ok THEN [poller EXCEPT !.pc = "send",
                                           !.steps = Append(poller.steps, "sign")]
                       ELSE PollerThrows
  /\ UNCHANGED <<txs, asset_prices>>

\* 3) SEND TX: await tx.send() throws before the transaction reaches the network
PollerSendFails ==
  /\ poller.pc = "send"
  /\ poller' = PollerThrows
  /\ UNCHANGED <<txs, asset_prices>>

\* 3) SEND TX: tx.send() hands the transaction to the network; without a hash
\* in sendTransactionResponse the call throws, with one it goes on to poll
PollerBroadcast ==
  /\ poller.pc = "send"
  /\ txs' = Append(txs, [call |-> poller.calls, fn |-> Invocation(poller.params).fn,
                          args |-> Invocation(poller.params).args, status |-> "PENDING"])
  /\ \E txHash \in BOOLEAN :
       poller' = IF txHash
                   THEN [poller EXCEPT !.pc = "poll", !.hashKnown = TRUE,
                                       !.steps = Append(poller.steps, "broadcast")]
                   ELSE PollerThrows
  /\ UNCHANGED asset_prices

\* 4) result = await this.server.getTransaction(txHash): the status of the
\* transaction as the node knows it, or the read throws
PollerGetTransaction ==
  /\ poller.pc = "poll"
  /\ \E ok \in BOOLEAN :
       poller' =
         IF ok
           THEN [poller EXCEPT
                   !.pc = "checkStatus",
                   !.result = IF txs[Len(txs)].status = "PENDING"
                                THEN "NOT_FOUND" ELSE txs[Len(txs)].status,
                   !.steps = IF poller.steps[Len(poller.steps)] = "poll"
                                THEN poller.steps ELSE Append(poller.steps, "poll")]
           ELSE PollerThrows
  /\ UNCHANGED <<txs, asset_prices>>

\* while (result.status === NOT_FOUND) {...}; FAILED throws; otherwise
\* return { txHash, success: true }
PollerCheckStatus ==
  /\ poller.pc = "checkStatus"
  /\ poller' = IF poller.result = "NOT_FOUND" THEN [poller EXCEPT !.pc = "wait"]
               ELSE IF poller.result = "FAILED" THEN PollerThrows
               ELSE [poller EXCEPT !.pc = "done", !.outcome = "success"]
  /\ UNCHANGED <<txs, asset_prices>>

\* await new Promise((resolve) => setTimeout(resolve, 1500)), then poll again
PollerWait ==
  /\ poller.pc = "wait"
  /\ poller' = [poller EXCEPT !.pc = "poll"]
  /\ UNCHANGED <<txs, asset_prices>>

\* the promise of publishToOracle settles and the publisher is free again
PollerSettle ==
  /\ poller.pc = "done"
  /\ poller' = [IdlePoller EXCEPT !.calls = poller.calls]
  /\ UNCHANGED <<txs, asset_prices>>

\* the steps of the publisher itself, each an await that settles
PollerStep ==
  \/ PollerSimulate
  \/ PollerSign
  \/ PollerSendFails
  \/ PollerBroadcast
  \/ PollerGetTransaction
  \/ PollerCheckStatus
  \/ PollerWait
  \/ PollerSettle

NextPoller ==
  /\ \/ \E params \in ParamsUniverse : PollerPublish(params)
     \/ PollerStep
     \/ \E i \in DOMAIN txs : LedgerExecute(i)
  /\ UNCHANGED <<verifierVars, clientOk, pub, publishCalls, builder>>

SpecPoller == Init /\ [][NextPoller]_vars

\* every await of the publisher settles; the ledger owes nothing: a broadcast
\* transaction may stay unknown to the node for ever
SpecPollerFair ==
  Init /\ [][NextPoller]_vars /\ WF_vars(PollerStep /\ UNCHANGED <<verifierVars, clientOk, pub, publishCalls, builder>>)

----------------------------------------------------------------------------
(* 7-decimal prices. A price such as 3000000000 is held as the pair         *)
(* [hi, lo] standing for hi * PriceScale + lo with 0 <= lo < PriceScale,    *)
(* and the circuit's arithmetic is carried out on pairs.                    *)

Big(hi, lo) == [hi |-> hi, lo |-> lo]

\* p1 > p2
BigGt(x, y) == x.hi > y.hi \/ (x.hi = y.hi /\ x.lo > y.lo)

\* diff <= threshold
BigLeq(x, y) == ~BigGt(x, y)

\* p1 + p2
BigAdd(x, y) ==
  Big(x.hi + y.hi + ((x.lo + y.lo) \div PriceScale), (x.lo + y.lo) % PriceScale)

\* p1 - p2, for p1 >= p2
BigSub(x, y) ==
  IF x.lo >= y.lo THEN Big(x.hi - y.hi, x.lo - y.lo)
  ELSE Big(x.hi - y.hi - 1, x.lo + PriceScale - y.lo)

\* max_price * 7
BigMul(x, k) ==
  Big(x.hi * k + ((x.lo * k) \div PriceScale), (x.lo * k) % PriceScale)

\* ... / 100, ... / 2, ... / 100000: integer division
BigDiv(x, k) ==
  LET r == x.hi % k
  IN Big(x.hi \div k, r * (PriceScale \div k) + ((r * (PriceScale % k) + x.lo) \div k))

\* the number a pair stands for, when it is small
BigToInt(x) == x.hi * PriceScale + x.lo

\* a circuit whose division rounds up: assert(diff <= threshold) with
\* threshold one unit too large whenever max_price * 7 is not a multiple of 100
circuit_main_loose(p1, p2) ==
  LET max_price == IF BigGt(p1, p2) THEN p1 ELSE p2
      diff      == IF BigGt(p1, p2) THEN BigSub(p1, p2) ELSE BigSub(p2, p1)
      threshold == BigDiv(BigAdd(BigMul(max_price, 7), Big(0, 99)), 100)
  IN [ok        |-> BigLeq(diff, threshold),
      avg_price |-> BigToInt(BigDiv(BigDiv(BigAdd(p1, p2), 2), PriceScale))]

\* fn main(p1, p2, asset_id, pub avg_price) of src/circuits/main.nr as the
\* source shows it: ok is the assert, avg_price the public output
circuit_main(p1, p2) ==
  LET max_price == IF BigGt(p1, p2) THEN p1 ELSE p2
      diff      == IF BigGt(p1, p2) THEN BigSub(p1, p2) ELSE BigSub(p2, p1)
      threshold == BigDiv(BigMul(max_price, 7), 100)
  IN [ok        |-> BigLeq(diff, threshold),
      avg_price |-> BigToInt(BigDiv(BigDiv(BigAdd(p1, p2), 2), PriceScale))]

----------------------------------------------------------------------------
(* commit.ts: assetIdToInt and generateCommit *)

\* assetId.charCodeAt(i) for the asset identifiers in use
charCodes(assetId) ==
  CASE assetId = "TSLA" -> <<84, 83, 76, 65>>
    [] assetId = "BTC"  -> <<66, 84, 67>>

\* --assets [TSLA, BTC]: the assets the oracle is deployed with
AssetUniverse == {"TSLA", "BTC"}

\* a 32-bit integer as two 16-bit halves
Word(hi, lo) == [hi |-> hi, lo |-> lo]

\* a step that leaves the character out: hash = (hash << 5) - hash
hashStep_without_char(hash, char) ==
  LET lo == 31 * hash.lo
  IN Word((31 * hash.hi + (lo \div 65536)) % 65536, lo % 65536)

\* hash = ((hash << 5) - hash) + char; hash = hash & hash
\* that is 31 * hash + char, wrapped to 32 bits
hashStep(hash, char) ==
  LET lo == 31 * hash.lo + char
  IN Word((31 * hash.hi + (lo \div 65536)) % 65536, lo % 65536)

RECURSIVE hashLoop(_, _, _)
hashLoop(hash, codes, i) ==
  IF i > Len(codes) THEN hash
  ELSE hashLoop(hashStep(hash, codes[i]), codes, i + 1)

\* Math.abs(hash) of the signed 32-bit value
mathAbs(hash) ==
  IF hash.hi < 32768 THEN hash
  ELSE Word((65535 - hash.hi + (IF hash.lo = 0 THEN 1 ELSE 0)) % 65536,
            (65536 - hash.lo) % 65536)

assetIdToInt(assetId) == mathAbs(hashLoop(Word(0, 0), charCodes(assetId), 1))

\* commit = Poseidon([price, timestamp, assetId_as_int]); Poseidon is taken to
\* be collision-free, so the value is written as the list of what is hashed
generateCommit(price, timestamp, assetId) ==
  <<"Poseidon", price, timestamp, assetIdToInt(assetId)>>

----------------------------------------------------------------------------
(* The off-chain round (ConsensusProofBuilder.build, then the commitment    *)
(* and the hand-over to the publisher). builder.pc is its position:         *)
(*   idle -> sources -> tolerance -> prove -> verify -> built -> bound      *)
(*        -> sent, or failed with builder.error set.                        *)

\* observed 7-decimal prices, from 278.9999999 to 301.0000000
PriceUniverse ==
  {Big(27899, 99999), Big(27900, 0), Big(27900, 46), Big(30000, 0), Big(30000, 50),
   Big(30100, 0)}

ObservationsUniverse ==
  {<< >>} \cup {<<p>> : p \in PriceUniverse}
          \cup {<<p, q>> : p \in PriceUniverse, q \in PriceUniverse}

maxPrice(observations) ==
  CHOOSE p \in {observations[i] : i \in DOMAIN observations} :
    \A i \in DOMAIN observations : BigLeq(observations[i], p)

minPrice(observations) ==
  CHOOSE p \in {observations[i] : i \in DOMAIN observations} :
    \A i \in DOMAIN observations : BigLeq(p, observations[i])

\* diff > maxPrice * toleranceBps / 10000
ToleranceExceeded(observations, toleranceBps) ==
  BigGt(BigSub(maxPrice(observations), minPrice(observations)),
        BigDiv(BigMul(maxPrice(observations), toleranceBps), 10000))

\* build(observations, toleranceBps) is called for one asset and one round
StartRound(observations, assetId) ==
  /\ builder.pc = "idle"
  /\ builder.rounds < MaxBuildRounds
  /\ builder' = [IdleBuilder EXCEPT !.pc = "sources",
                                    !.rounds = builder.rounds,
                                    !.bindings = builder.bindings,
                                    !.assetId = assetId,
                                    !.timestamp = 1700000000,
                                    !.observations = observations]

\* a builder that is content with one observation
CheckSources_one_is_enough ==
  /\ builder.pc = "sources"
  /\ builder' = IF Len(builder.observations) < 1
                THEN [builder EXCEPT !.pc = "failed", !.error = "InsufficientSources"]
                ELSE [builder EXCEPT !.pc = "tolerance"]

\* fails with InsufficientSources if fewer than 2
CheckSources ==
  /\ builder.pc = "sources"
  /\ builder' = IF Len(builder.observations) < 2
                THEN [builder EXCEPT !.pc = "failed", !.error = "InsufficientSources"]
                ELSE [builder EXCEPT !.pc = "tolerance"]

\* a builder without the local check
CheckTolerance_never_fails ==
  /\ builder.pc = "tolerance"
  /\ builder' = [builder EXCEPT !.pc = "prove"]

\* the local check, before proving
CheckTolerance ==
  /\ builder.pc = "tolerance"
  /\ builder' = IF ToleranceExceeded(builder.observations, ToleranceBps)
                THEN [builder EXCEPT !.pc = "failed", !.error = "ToleranceExceeded"]
                ELSE [builder EXCEPT !.pc = "prove"]

\* a builder that calls Prove again after a failure
Prove_retried ==
  /\ builder.pc = "prove"
  /\ builder.proveCalls < maxRetries
  /\ \/ builder' = [builder EXCEPT !.proveCalls = builder.proveCalls + 1]
     \/ builder' = [builder EXCEPT !.pc = "failed", !.error = "ProofGenerationFailed",
                                   !.proveCalls = builder.proveCalls + 1]

\* Prove(inputs) -> {proofBytes, publicInputs}: the oracle may fail; when it
\* succeeds the circuit's assert held and publicInputs is the circuit's output
Prove ==
  /\ builder.pc = "prove"
  /\ LET out == circuit_main(builder.observations[1], builder.observations[2])
     IN \/ builder' = [builder EXCEPT !.pc = "failed",
                                      !.error = "ProofGenerationFailed",
                                      !.proveCalls = builder.proveCalls + 1]
        \/ /\ out.ok
           /\ \E proof \in {ProofA, ProofB} :
                builder' = [builder EXCEPT !.pc = "verify",
                                           !.proof = proof,
                                           !.publicInputs = <<out.avg_price>>,
                                           !.proveCalls = builder.proveCalls + 1]

\* a builder that goes on whatever VerifyFull returns
VerifyFull_ignored ==
  /\ builder.pc = "verify"
  /\ \E valid \in BOOLEAN :
       builder' = [builder EXCEPT !.pc = "built",
                                  !.verifyCalls = builder.verifyCalls + 1,
                                  !.verified = IF valid
                                               THEN <<builder.proof, builder.publicInputs>>
                                               ELSE << >>,
                                  !.averagedPrice = builder.publicInputs[1]]

\* VerifyFull(proofBytes, publicInputs) -> bool; on true build returns, with
\* averagedPrice the proof's declared output
VerifyFull ==
  /\ builder.pc = "verify"
  /\ \E valid \in BOOLEAN :
       builder' = IF valid
                  THEN [builder EXCEPT !.pc = "built",
                                       !.verifyCalls = builder.verifyCalls + 1,
                                       !.verified = <<builder.proof, builder.publicInputs>>,
                                       !.averagedPrice = builder.publicInputs[1]]
                  ELSE [builder EXCEPT !.pc = "failed",
                                       !.error = "LocalVerificationFailed",
                                       !.verifyCalls = builder.verifyCalls + 1]

\* const commit = await generateCommit(price, timestamp, assetId)
Bind ==
  /\ builder.pc = "built"
  /\ LET value == generateCommit(builder.averagedPrice, builder.timestamp, builder.assetId)
     IN builder' = [builder EXCEPT
          !.pc = "bound",
          !.commitment = <<value>>,
          !.bindings = builder.bindings \cup
            {[price |-> builder.averagedPrice, timestamp |-> builder.timestamp,
              assetId |-> builder.assetId, proofDigest |-> keccak256(builder.proof),
              value |-> value]}]

\* the payload is handed to the publisher
Transmit ==
  /\ builder.pc = "bound"
  /\ builder' = [builder EXCEPT
       !.pc = "sent",
       !.submitted = <<[assetId |-> builder.assetId, price |-> builder.averagedPrice,
                        timestamp |-> builder.timestamp,
                        commitment |-> builder.commitment[1],
                        proof |-> builder.proof,
                        publicInputs |-> builder.publicInputs]>>]

\* the round is over, with a payload sent or with an error
EndRound ==
  /\ builder.pc \in {"sent", "failed"}
  /\ builder' = [IdleBuilder EXCEPT !.rounds = builder.rounds + 1,
                                    !.bindings = builder.bindings]

BuildStep ==
  \/ \E observations \in ObservationsUniverse, assetId \in AssetUniverse :
       StartRound(observations, assetId)
  \/ CheckSources
  \/ CheckTolerance
  \/ Prove
  \/ VerifyFull
  \/ Bind
  \/ Transmit
  \/ EndRound

NextBuild ==
  /\ BuildStep
  /\ UNCHANGED <<verifierVars, clientOk, pub, txs, asset_prices, publishCalls, poller>>

SpecBuild == Init /\ [][NextBuild]_vars

----------------------------------------------------------------------------
(* Properties of the publisher *)

\* the transactions of publishToOracle call c that the ledger applied
AppliedOf(c) == {i \in DOMAIN txs : txs[i].call = c /\ txs[i].status = "SUCCESS"}

\* C4: Idempotency under retry. Within one publishToOracle call, however
\* often the retry wrapper submits again after a failure it cannot tell from
\* success, the ledger accepts the call's payload at most once.
C4_IdempotentUnderRetry ==
  \A c \in 1..MaxPublishCalls : Cardinality(AppliedOf(c)) <= 1

\* C14: Confirmation polling terminates. Once the publisher polls for the
\* confirmation of a broadcast transaction, its publishToOracle call
\* eventually ends with a terminal outcome, also when the node never knows
\* the transaction.
C14_PollingTerminates ==
  (poller.pc = "poll") ~> (poller.pc = "done" /\ poller.outcome \in {"success", "error"})

\* C15: Exactly one terminal outcome. Every publishToOracle call that starts
\* eventually ends, with exactly one of success (Confirmed) and error
\* (Failed), and an ended call keeps its outcome.
C15_OneTerminalOutcome ==
  /\ (poller.pc = "simulate") ~>
       (poller.pc = "done" /\ poller.outcome \in {"success", "error"})
  /\ [][poller.pc = "done" => (poller' = poller \/ poller'.pc = "idle")]_vars

----------------------------------------------------------------------------
(* Properties of the on-chain verifier *)

StructureOk(a) == validate_proof_structure(a.proof) = "Ok"

\* the submission passes the structural, public-input and price checks
Passes(a) ==
  /\ StructureOk(a)
  /\ Len(a.public_inputs) > 0
  /\ a.public_inputs[1] = expected_scaled(a.price)

HashOf(a) == keccak256(a.proof)

\* C1 (as amended): a submission that passes the structural, public-input
\* and price checks returns Ok when no submission carrying the same proof
\* bytes was accepted before, and ProofAlreadyUsed in every call after one
\* was, whatever was submitted in between.
C1_ReplayProtection ==
  [][(last'.called /\ Passes(last'.args)) =>
       last'.res = IF acceptCount[HashOf(last'.args)] = 0
                     THEN "Ok" ELSE "ProofAlreadyUsed"]_vars

\* C1 witness: watched arguments were accepted by their first call and
\* rejected as ProofAlreadyUsed by a later one, after another proof was
\* accepted as well.
C1_Witness ==
  \E x \in DOMAIN firstOutcome :
    /\ firstOutcome[x].first = "Ok"
    /\ firstOutcome[x].later = "rejected"
    /\ Cardinality(DOMAIN used_proofs) = 2

\* C1 as stated: the first call with given arguments that pass the checks
\* returns Ok, and every later call with them returns ProofAlreadyUsed.
C1_FirstCallAccepted ==
  \A x \in DOMAIN firstOutcome :
    /\ firstOutcome[x].first = "Ok"
    /\ firstOutcome[x].later \in {"none", "rejected"}

\* C2: every proof digest has at most one Ok result ever returned for it,
\* and has a used-proof record exactly when it has that one Ok result.
C2_AtMostOneAccept ==
  \A h \in HashUniverse :
    /\ acceptCount[h] <= 1
    /\ (h \in DOMAIN used_proofs) <=> (acceptCount[h] = 1)
    /\ Cardinality({d \in DOMAIN used_proofs : d = h}) <= 1

\* C2 witness: a recorded proof was submitted again and rejected.
C2_Witness ==
  /\ last.called
  /\ last.res = "ProofAlreadyUsed"
  /\ acceptCount[HashOf(last.args)] = 1

\* C3: a recorded digest stays recorded with the same record in every step.
C3_RecordedIsPermanent ==
  [][\A h \in DOMAIN used_proofs :
       h \in DOMAIN used_proofs' /\ used_proofs'[h] = used_proofs[h]]_vars

\* C3 witness: two digests are recorded, the second by a submission
\* accepted after the first was recorded.
C3_Witness ==
  /\ Cardinality(DOMAIN used_proofs) = 2
  /\ last.called
  /\ last.res = "Ok"

\* C5: of two rounds that carried the same proof bytes and were both
\* executed, at most one got Ok; when both pass the other checks exactly
\* one record exists and exactly one Ok was ever returned for the digest.
C5_ConcurrentRounds ==
  \A r1 \in Rounds : \A r2 \in Rounds \ {r1} :
    (/\ round[r1].pc = "done"
     /\ round[r2].pc = "done"
     /\ round[r1].args.proof = round[r2].args.proof)
    => /\ ~(round[r1].res = "Ok" /\ round[r2].res = "Ok")
       /\ (Passes(round[r1].args) /\ Passes(round[r2].args))
            => /\ HashOf(round[r1].args) \in DOMAIN used_proofs
               /\ acceptCount[HashOf(round[r1].args)] = 1
               /\ {round[r1].res, round[r2].res} \subseteq {"Ok", "ProofAlreadyUsed"}

\* C5 witness: two rounds with the same proof were executed, one got Ok
\* and the other ProofAlreadyUsed.
C5_Witness ==
  \E r1 \in Rounds : \E r2 \in Rounds \ {r1} :
    /\ round[r1].pc = "done" /\ round[r2].pc = "done"
    /\ round[r1].args.proof = round[r2].args.proof
    /\ round[r1].res = "Ok"
    /\ round[r2].res = "ProofAlreadyUsed"

\* C6 as stated: Ok is returned only when the declared output, re-scaled to
\* the claimed price's 7 decimals, equals the claimed price exactly.
C6_PriceExact ==
  (last.called /\ last.res = "Ok")
    => last.args.public_inputs[1] * PriceScale = last.args.price

\* C7: an empty payload is rejected EmptyProof, a shorter one BadProofLen,
\* an all-zero one of sufficient length ZeroProof, whatever else is
\* submitted and whatever the ledger holds.
C7_StructuralRejection ==
  last.called =>
    LET n == BytesLen(last.args.proof) IN
    /\ (n = 0) => last.res = "EmptyProof"
    /\ (0 < n /\ n < MinProofLen) => last.res = "BadProofLen"
    /\ (n >= MinProofLen /\ AllZero(last.args.proof)) => last.res = "ZeroProof"

\* C7 witness: an all-zero payload of 256 bytes was rejected ZeroProof with
\* no public input, on a ledger that holds records.
C7_Witness ==
  /\ last.called
  /\ last.res = "ZeroProof"
  /\ BytesLen(last.args.proof) = MinProofLen
  /\ last.args.public_inputs = << >>
  /\ used_proofs # EmptyMap

FirstFailure(used, a) ==
  IF ~StructureOk(a) THEN {"EmptyProof", "BadProofLen", "ZeroProof"}
  ELSE IF Len(a.public_inputs) = 0 THEN {"NoPublicInput"}
  ELSE IF a.public_inputs[1] # expected_scaled(a.price) THEN {"PriceMismatch"}
  ELSE IF HashOf(a) \in DOMAIN used THEN {"ProofAlreadyUsed"}
  ELSE {"Ok"}

C9_RejectionFrame ==
  [][/\ (last'.called /\ last'.res # "Ok") => UNCHANGED ledger
     /\ (used_proofs' # used_proofs) => (last'.called /\ last'.res = "Ok")]_vars

\* C9 witness: a submission was rejected on a ledger that holds records.
C9_Witness ==
  /\ last.called
  /\ last.res \in {"PriceMismatch", "ProofAlreadyUsed", "NoPublicInput"}
  /\ used_proofs # EmptyMap
  /\ prices # EmptyMap

Key(a) == <<a.asset, a.timestamp>>

AcceptedEffect ==
  (last.called /\ last.res = "Ok") =>
    /\ HashOf(last.args) \in DOMAIN used_proofs
    /\ used_proofs[HashOf(last.args)].firstSeenAt = last.args.timestamp
    /\ Key(last.args) \in DOMAIN prices
    /\ prices[Key(last.args)] = last.args.price
    /\ Key(last.args) \in DOMAIN metadata
    /\ metadata[Key(last.args)] =
         [commit |-> last.args.commit, proof_hash |-> HashOf(last.args), verified |-> TRUE]

StoredPricesHaveRecords ==
  /\ DOMAIN prices = DOMAIN metadata
  /\ \A k \in DOMAIN prices :
       /\ metadata[k].verified
       /\ metadata[k].proof_hash \in DOMAIN used_proofs
       /\ used_proofs[metadata[k].proof_hash].firstSeenAt = k[2]

C11_OneRecordedPerAssetTimestamp ==
  [][(last'.called /\ last'.res = "Ok") => Key(last'.args) \notin DOMAIN prices]_vars

----------------------------------------------------------------------------
(* Properties of the publisher's retry wrapper *)

\* the callback failed because the ledger reported a final status other than
\* SUCCESS for the transaction it broadcast
PermanentFailure == pub.pc = "catch" /\ pub.response = "FAILED"

\* C12: Retry classification. After a permanent failure (the final status of
\* the transaction is not SUCCESS) the publisher makes no further attempt:
\* the next step of the call surfaces the failure to the caller.
C12_PermanentNotRetried ==
  [][(PermanentFailure /\ pub' # pub) => (pub'.pc = "done" /\ pub'.outcome = "error")]_vars

\* the transactions broadcast by the publishToOracle call in progress
BroadcastOf(c) == {i \in DOMAIN txs : txs[i].call = c}

AttemptsBounded ==
  /\ pub.attempts <= maxRetries + 1
  /\ pub.pc # "idle" => Cardinality(BroadcastOf(publishCalls)) <= pub.attempts
  /\ (pub.pc = "done" /\ pub.outcome = "error" /\ clientOk) => pub.attempts = maxRetries + 1

\* C13: Bounded retry. A publishToOracle call makes at most maxRetries + 1
\* attempts, every attempt after the first starts from the retry delay, a
\* failure is reported to the caller only after attempt maxRetries + 1, and
\* the failure of that attempt ends the call with an error.
C13_BoundedRetry ==
  [][/\ AttemptsBounded'
     /\ (pub'.attempts > pub.attempts /\ pub.attempts >= 1) => pub.pc = "delay"
     /\ (pub.pc = "catch" /\ pub.attempts = maxRetries + 1 /\ pub' # pub)
          => (pub'.pc = "done" /\ pub'.outcome = "error")]_vars

\* C13 witness: all maxRetries + 1 attempts failed before any broadcast and
\* the call ended with an error.
C13_Witness ==
  /\ pub.pc = "done"
  /\ pub.outcome = "error"
  /\ pub.attempts = maxRetries + 1
  /\ txs = << >>

\* C16: Success is never derived from partial information. A call has the
\* outcome success only if the final response read for the transaction it
\* broadcast last has status SUCCESS and the ledger did apply that
\* transaction; a known hash without that response never gives success.
C16_SuccessOnlyOnFinalSuccess ==
  pub.outcome = "success" =>
    /\ pub.response = "SUCCESS"
    /\ txs # << >>
    /\ txs[Len(txs)].call = publishCalls
    /\ txs[Len(txs)].status = "SUCCESS"

\* C16 witness: signAndSend returned a transaction hash but no final
\* response; the attempt failed and the call has no outcome yet.
C16_Witness ==
  /\ pub.pc = "catch"
  /\ pub.hashKnown
  /\ pub.response = "undefined"
  /\ pub.outcome = "none"

\* the attempts carrying the commitment of params whose transaction the
\* ledger confirmed
ConfirmedFor(params) ==
  {i \in DOMAIN txs : txs[i].args = Invocation(params).args /\ txs[i].status = "SUCCESS"}

\* C17: At most one Confirmed per commitment. Of all the attempts that wrap
\* one commitment, retries inside a publishToOracle call and repeated calls
\* alike, at most one is confirmed by the ledger.
C17_OneConfirmedPerCommitment ==
  \A params \in ParamsUniverse : Cardinality(ConfirmedFor(params)) <= 1

\* the transactions of the call in progress whose outcome is still unknown
PendingOf(c) == {i \in BroadcastOf(c) : txs[i].status = "PENDING"}

\* C18: No abandonment after broadcast. While a transaction broadcast by the
\* call in progress has no terminal status, the publisher neither broadcasts
\* another transaction nor ends the call with an outcome.
C18_NoAbandonment ==
  [][/\ Len(txs') > Len(txs) => PendingOf(publishCalls) = {}
     /\ (pub'.pc = "done" /\ pub.pc # "done") => PendingOf(publishCalls) = {}]_vars

----------------------------------------------------------------------------
(* Properties of the submission sequence *)

SubmissionOrder == <<"simulate", "sign", "broadcast", "poll">>

IsPrefix(s, t) == Len(s) <= Len(t) /\ \A i \in 1..Len(s) : s[i] = t[i]

OrderKept ==
  /\ IsPrefix(poller.steps, SubmissionOrder)
  /\ (poller.pc # "idle" /\ BroadcastOf(poller.calls) # {})
       => (Len(poller.steps) >= 2 /\ Cardinality(BroadcastOf(poller.calls)) = 1)
  /\ poller.pc \in {"poll", "checkStatus", "wait"}
       => (poller.hashKnown /\ Len(poller.steps) >= 3)

\* C19: Submission order. The steps completed in a call are a prefix of
\* simulate, sign, broadcast, poll; a transaction is broadcast only after the
\* simulation and the signature; polling starts only with a transaction hash
\* returned by the broadcast; after a failed step the call does nothing more:
\* no further step and no broadcast.
C19_SubmissionOrder ==
  [][/\ OrderKept'
     /\ (poller.outcome = "error" /\ poller' # poller)
          => (poller'.pc = "idle" /\ txs' = txs)]_vars

\* C19 witness: a call went through the four steps and returned success.
C19_Witness ==
  /\ poller.pc = "done"
  /\ poller.outcome = "success"
  /\ poller.steps = SubmissionOrder

\* C20: Payload completeness. Every transaction the publisher broadcasts
\* invokes the verifier's acceptance entry point and carries, besides asset,
\* price and timestamp, the commitment, the proof bytes and the public inputs.
C20_PayloadComplete ==
  \A i \in DOMAIN txs :
    /\ txs[i].fn = "set_price_with_proof"
    /\ {"asset_id", "price", "timestamp", "commitment", "proof_data", "public_inputs"}
         \subseteq DOMAIN txs[i].args

----------------------------------------------------------------------------
(* Properties of the off-chain round *)

InRound == builder.pc \notin {"idle", "sources"}
Tolerated(observations) ==
  Len(observations) >= 2 /\ ~ToleranceExceeded(observations, ToleranceBps)
NothingLeaves ==
  /\ builder.verifyCalls = 0 /\ builder.verified = << >>
  /\ builder.commitment = << >> /\ builder.submitted = << >>

\* C21: a round whose observations differ by more than
\* maxPrice * toleranceBps / 10000 fails with ToleranceExceeded without a
\* call of Prove, and nothing is verified, bound or submitted in it.
C21_ToleranceBeforeProve ==
  (/\ Len(builder.observations) >= 2
   /\ ~Tolerated(builder.observations)
   /\ builder.pc \notin {"idle", "sources", "tolerance"})
  => /\ builder.pc = "failed"
     /\ builder.error = "ToleranceExceeded"
     /\ builder.proveCalls = 0
     /\ NothingLeaves

C21_Witness ==
  /\ builder.pc = "failed"
  /\ builder.error = "ToleranceExceeded"
  /\ builder.observations = <<Big(30000, 0), Big(27899, 99999)>>

\* the average of two prices at 2 decimals, said without dividing:
\* 2 * avg * 100000 <= p1 + p2 < 2 * (avg + 1) * 100000
IsAverage(avg, p1, p2) ==
  /\ BigLeq(Big(2 * avg, 0), BigAdd(p1, p2))
  /\ BigGt(Big(2 * avg + 2, 0), BigAdd(p1, p2))

\* C22: the local tolerance check and the circuit's assert agree on the
\* observations of every round; on a tolerated pair Prove and VerifyFull can
\* succeed, and the round then returns the circuit's declared output, which
\* is (p1 + p2) / 2 / 100000.
C22_TolerantPairsSucceed ==
  /\ (builder.pc = "prove"
      => /\ Tolerated(builder.observations)
         /\ circuit_main(builder.observations[1], builder.observations[2]).ok
         /\ ENABLED (Prove /\ builder'.pc = "verify"))
  /\ (builder.pc = "verify" => ENABLED (VerifyFull /\ builder'.pc = "built"))
  /\ (builder.error = "ToleranceExceeded"
      => ~circuit_main(builder.observations[1], builder.observations[2]).ok)
  /\ (builder.pc \in {"built", "bound", "sent"}
      => /\ Tolerated(builder.observations)
         /\ builder.averagedPrice = builder.publicInputs[1]
         /\ builder.averagedPrice =
              circuit_main(builder.observations[1], builder.observations[2]).avg_price
         /\ IsAverage(builder.averagedPrice,
                      builder.observations[1], builder.observations[2]))

\* a pair exactly on the 7% boundary builds, with the average 2895.00
C22_Witness ==
  /\ builder.pc = "built"
  /\ builder.observations = <<Big(27900, 0), Big(30000, 0)>>
  /\ builder.averagedPrice = 28950

\* C23: a payload is handed over only when VerifyFull returned true for
\* exactly its proof bytes and public inputs; when VerifyFull returns false
\* the round fails with LocalVerificationFailed and nothing is bound or
\* submitted.
C23_NoTransmissionWithoutVerification ==
  /\ (builder.commitment # << >> \/ builder.submitted # << >>
      => builder.verified = <<builder.proof, builder.publicInputs>>)
  /\ (builder.submitted # << >>
      => builder.verified =
           <<builder.submitted[1].proof, builder.submitted[1].publicInputs>>)
  /\ (builder.verifyCalls > 0 /\ builder.verified = << >>
      => /\ builder.pc = "failed"
         /\ builder.error = "LocalVerificationFailed"
         /\ builder.commitment = << >>
         /\ builder.submitted = << >>)

C23_Witness ==
  /\ builder.pc = "failed"
  /\ builder.error = "LocalVerificationFailed"
  /\ builder.verifyCalls = 1

\* C24: Prove is called at most once in a round; when it fails the round
\* fails with ProofGenerationFailed after that one call, with no VerifyFull
\* call, no commitment and no submission.
C24_ProveNotRetried ==
  /\ builder.proveCalls <= 1
  /\ (builder.proveCalls = 1 /\ builder.proof = << >>
      => /\ builder.pc = "failed"
         /\ builder.error = "ProofGenerationFailed"
         /\ NothingLeaves)
  /\ (builder.error = "ProofGenerationFailed" => builder.proveCalls = 1)

C24_Witness ==
  /\ builder.error = "ProofGenerationFailed"
  /\ builder.proveCalls = 1
  /\ Tolerated(builder.observations)

\* C25: a round given fewer than 2 observations fails with
\* InsufficientSources, without a call of Prove or VerifyFull.
C25_InsufficientSources ==
  (Len(builder.observations) < 2 /\ InRound)
  => /\ builder.pc = "failed"
     /\ builder.error = "InsufficientSources"
     /\ builder.proveCalls = 0
     /\ NothingLeaves

C25_Witness ==
  /\ builder.error = "InsufficientSources"
  /\ Len(builder.observations) = 1

\* C27: the commitment commits to the proof digest: two bindings that carry
\* different proof digests have different commitment values, also when they
\* agree on price, timestamp and asset.
C27_CommitmentBindsProof ==
  \A b1 \in builder.bindings : \A b2 \in builder.bindings :
    b1.proofDigest # b2.proofDigest => b1.value # b2.value

\* C28: assetIdToInt gives TSLA and BTC the integers 2584628 and 66097, and
\* two commitments for different assets of the universe in use with equal
\* price and timestamp have different values.
C28_AssetEncodingInjective ==
  /\ \A b \in builder.bindings :
       /\ b.assetId = "TSLA" => b.value[4] = Word(39, 28724)
       /\ b.assetId = "BTC" => b.value[4] = Word(1, 561)
  /\ \A b1 \in builder.bindings : \A b2 \in builder.bindings :
       (b1.assetId # b2.assetId /\ b1.price = b2.price /\ b1.timestamp = b2.timestamp)
         => b1.value # b2.value

C28_Witness ==
  \E b1 \in builder.bindings : \E b2 \in builder.bindings :
    /\ b1.assetId = "TSLA" /\ b2.assetId = "BTC"
    /\ b1.price = b2.price /\ b1.timestamp = b2.timestamp

----------------------------------------------------------------------------
(* Properties of the pipeline end to end *)

\* C29: the example. p1 = 3000000000 and p2 = 3010000000 pass the circuit
\* with the average 30050; of two submissions of one payload the first is
\* confirmed and the second is not.
C29_EndToEndExample ==
  /\ circuit_main(Big(30000, 0), Big(30100, 0)) = [ok |-> TRUE, avg_price |-> 30050]
  /\ \A i \in DOMAIN txs : \A j \in DOMAIN txs :
       (i < j /\ txs[i].args = txs[j].args /\ txs[i].status = "SUCCESS")
         => txs[j].status # "SUCCESS"

\* the price stored with the proof of digest h, when it is still stored
AcceptedPrices(h) == {prices[k] : k \in {x \in DOMAIN metadata : metadata[x].proof_hash = h}}

\* C30: a well-formed submission carrying the bytes of an accepted proof is
\* rejected and stores nothing; it is rejected with PriceMismatch when its
\* price differs from the accepted one and with ProofAlreadyUsed otherwise.
C30_ReplayKeyedByProofBytes ==
  [][(/\ last'.called
      /\ StructureOk(last'.args)
      /\ Len(last'.args.public_inputs) > 0
      /\ HashOf(last'.args) \in DOMAIN used_proofs
      /\ last' # last)
     => /\ last'.res # "Ok"
        /\ UNCHANGED <<used_proofs, prices, metadata>>
        /\ \A v \in AcceptedPrices(HashOf(last'.args)) :
             last'.res = IF last'.args.price # v THEN "PriceMismatch"
                         ELSE "ProofAlreadyUsed"]_vars

----------------------------------------------------------------------------
(* Properties of independent rounds, of the retry wrapper and of the client *)

\* the verdict of a submission executed on a ledger that holds nothing
AloneVerdict(a) ==
  verify_price_proof(EmptyMap, a.proof, a.public_inputs, a.price, a.timestamp).res

OtherRounds(r) == Rounds \ {r}

\* C31: an executed round whose proof digest no other round carries has the
\* verdict it would have alone; when it is accepted and no other round is for
\* its (asset, timestamp) pair, its price, metadata and used-proof record are
\* stored as if it had run alone, whatever the other rounds did.
C31_RoundsIndependent ==
  \A r \in Rounds :
    (/\ round[r].pc = "done"
     /\ \A o \in OtherRounds(r) :
          round[o].pc = "idle" \/ HashOf(round[o].args) # HashOf(round[r].args))
    => /\ round[r].res = AloneVerdict(round[r].args)
       /\ (round[r].res = "Ok"
           => /\ HashOf(round[r].args) \in DOMAIN used_proofs
              /\ used_proofs[HashOf(round[r].args)].firstSeenAt = round[r].args.timestamp)
       /\ (/\ round[r].res = "Ok"
           /\ \A o \in OtherRounds(r) :
                round[o].pc = "idle" \/ Key(round[o].args) # Key(round[r].args))
          => /\ prices[Key(round[r].args)] = round[r].args.price
             /\ metadata[Key(round[r].args)].proof_hash = HashOf(round[r].args)
             /\ metadata[Key(round[r].args)].commit = round[r].args.commit

\* C31 witness: two rounds for different assets with different proofs were
\* both executed and both accepted.
C31_Witness ==
  /\ \A r \in Rounds : round[r].pc = "done" /\ round[r].res = "Ok"
  /\ round[1].args.asset # round[2].args.asset
  /\ HashOf(round[1].args) # HashOf(round[2].args)

\* C32: once the final response of a transaction of the call has status
\* SUCCESS, the call simulates, signs and broadcasts no further transaction,
\* also when no transaction hash can be determined.
C32_NoResubmissionAfterSuccess ==
  [][pub.response = "SUCCESS"
       => pub'.pc \notin {"simulate", "signAndSend", "awaitFinal"}]_vars

\* C33: inside retry, fn has been invoked at least once and at most
\* maxRetries + 1 times, invocations and remaining retries adding up to
\* maxRetries + 1; an invocation after the first follows one retry delay; a
\* success is returned by the invocation that succeeded, with no invocation
\* after it; an error is rethrown only after invocation maxRetries + 1 failed,
\* and it is that invocation's error.
C33_RetryWrapper ==
  [][/\ (clientOk /\ pub'.pc \notin {"idle", "getClient"})
          => /\ pub'.attempts >= 1
             /\ pub'.attempts + pub'.retries = maxRetries + 1
     /\ (pub.attempts >= 1 /\ pub'.attempts # pub.attempts /\ pub'.pc # "idle")
          => /\ pub.pc = "delay"
             /\ pub'.pc = "simulate"
             /\ pub'.attempts = pub.attempts + 1
     /\ (pub'.outcome = "success" /\ pub' # pub)
          => /\ pub.pc = "checkResponse"
             /\ pub'.pc = "done"
             /\ pub'.attempts = pub.attempts
     /\ (pub.outcome = "success" /\ pub' # pub) => pub' = IdlePublisher
     /\ (clientOk /\ pub'.outcome = "error" /\ pub' # pub)
          => /\ pub.pc = "catch"
             /\ pub'.attempts = maxRetries + 1
             /\ pub'.retries = 0
             /\ pub'.response = pub.response
             /\ pub'.hashKnown = pub.hashKnown]_vars

\* C33 witness: the first invocation failed and the second one, made after
\* the delay, succeeded.
C33_Witness ==
  /\ pub.outcome = "success"
  /\ pub.attempts = 2
  /\ pub.retries = maxRetries - 1

\* C34: when the client cannot be initialised, a publishToOracle call ends
\* with an error without entering the retry wrapper, and no transaction is
\* simulated, signed or broadcast.
C34_ClientFailureTerminal ==
  ~clientOk =>
    /\ pub.pc \in {"idle", "getClient", "done"}
    /\ pub.attempts = 0
    /\ pub.retries = 0
    /\ pub.pc = "done" => pub.outcome = "error"
    /\ txs = << >>
    /\ asset_prices = EmptyMap

C34_Witness ==
  /\ ~clientOk
  /\ pub.pc = "done"
  /\ pub.outcome = "error"

====
